---- MODULE Spec2Model ----
(***************************************************************************)
(* Model of the LinkedIn jobs scraper:                                     *)
(*   extractors/linkedin_parser.py  LinkedInJobScraper                     *)
(*       _fetch_page, _append_start_param, scrape_search,                  *)
(*       parse_listings, _parse_single_card                                *)
(*   utils/data_exporter.py         DataExporter.export                    *)
(*                                                                         *)
(* Four specifications share the variables:                                *)
(*   Spec        scrape_search driving _fetch_page and parse_listings      *)
(*   SpecUrl     _append_start_param on bounded base URLs                  *)
(*   SpecParse   parse_listings on bounded documents                       *)
(*   SpecExport  DataExporter.export on a small file system                *)
(***************************************************************************)
EXTENDS Integers, Sequences, FiniteSets, TLC

VARIABLES
    pc,           \* position of the running call
    search_url,   \* scrape_search / _append_start_param: base URL
    max_jobs,     \* scrape_search: max_jobs argument
    max_retries,  \* LinkedInJobScraper.max_retries
    all_jobs,     \* scrape_search: accumulated job dicts
    start,        \* scrape_search: current offset
    paged_url,    \* scrape_search: URL built for the current page
    attempt,      \* _fetch_page: loop variable of range(1, max_retries + 1)
    last_exc,     \* _fetch_page: {} for None, {exc} otherwise
    html,         \* document handed to parse_listings
    page_jobs,    \* result of parse_listings
    idx,          \* scrape_search: position of `for job in page_jobs`
    result,       \* {} while nothing was returned, {value} once returned
    failure,      \* {} while nothing was raised, {exc} once raised
    events,       \* history: "fetch" per _fetch_page call, "sleep" per line 133
    fetch_log,    \* history: the URLs passed to _fetch_page
    attempt_log,  \* history: outcome of each attempt of the current call
    extracted,    \* history: every record parse_listings produced, in order
    page_sizes,   \* history: len(page_jobs) of every parsed page
    records,      \* export: data argument
    fmt,          \* export: fmt argument
    path,         \* export: path argument
    fs,           \* export: the file system [dirs, files]
    fs0           \* export: the file system when export was called

vars == <<pc, search_url, max_jobs, max_retries, all_jobs, start, paged_url,
          attempt, last_exc, html, page_jobs, idx, result, failure, events,
          fetch_log, attempt_log, extracted, page_sizes, records, fmt, path,
          fs, fs0>>

\* The variables only scrape_search and _fetch_page use.
scrapeVars == <<max_jobs, max_retries, all_jobs, attempt, last_exc, idx,
                events, fetch_log, attempt_log, extracted, page_sizes>>

exportVars == <<records, fmt, path, fs, fs0>>

(***************************************************************************)
(* Bounds of the model.                                                    *)
(***************************************************************************)
MaxJobs == 3

MaxRetries == 2

MaxCards == 2

MaxParams == 2

MaxRecords == 2

(***************************************************************************)
(* Program constants.                                                      *)
(***************************************************************************)
page_size_guess == 25

\* Sequences over S of length at most n.
SeqsUpTo(S, n) == UNION {[1..k -> S] : k \in 0..n}

Last(s) == s[Len(s)]

(***************************************************************************)
(* str(start): decimal rendering of a non-negative integer.                *)
(***************************************************************************)
Digit(d) ==
    CASE d = 0 -> "0" [] d = 1 -> "1" [] d = 2 -> "2" [] d = 3 -> "3"
      [] d = 4 -> "4" [] d = 5 -> "5" [] d = 6 -> "6" [] d = 7 -> "7"
      [] d = 8 -> "8" [] d = 9 -> "9"

RECURSIVE Str(_)
Str(n) == IF n < 10 THEN Digit(n) ELSE Str(n \div 10) \o Digit(n % 10)

(***************************************************************************)
(* URLs.  A URL is [prefix, query]: prefix stands for scheme, host and     *)
(* path, which urlparse / _replace(query=..) / urlunparse carry over       *)
(* untouched; query is the list of name=value fields between the '&'s,     *)
(* each with its raw (percent-encoded) name and value.                     *)
(***************************************************************************)
Keys == {"start", "keywords", "f_TPR"}

RawValues == {"", "dev", "a%20b", "a+b"}

Fields == [k : Keys, v : RawValues]

\* urllib.parse.unquote with '+' read as a space, on the raw texts above.
Unquote(s) ==
    CASE s = "a%20b" -> "a b"
      [] s = "a+b" -> "a b"
      [] OTHER -> s

\* urllib.parse.quote_plus, on the decoded texts.
QuotePlus(s) ==
    CASE s = "a b" -> "a+b"
      [] OTHER -> s

\* parse_qsl(query) with its defaults: keep_blank_values=False drops every
\* field whose value is empty; names and values are decoded.
RECURSIVE parse_qsl(_)
parse_qsl(q) ==
    IF q = <<>> THEN <<>>
    ELSE LET f == Head(q)
             rest == parse_qsl(Tail(q))
         IN IF f.v = "" THEN rest
            ELSE <<[k |-> Unquote(f.k), v |-> Unquote(f.v)]>> \o rest

\* d[k] = v on an insertion-ordered dict kept as a list of pairs with
\* distinct keys: an existing key keeps its place and takes the new value,
\* a new key goes to the end.
DictSet(d, k, v) ==
    IF \E i \in 1..Len(d) : d[i].k = k
    THEN [i \in 1..Len(d) |-> IF d[i].k = k THEN [k |-> k, v |-> v] ELSE d[i]]
    ELSE Append(d, [k |-> k, v |-> v])

\* dict(pairs)
RECURSIVE DictFrom(_, _)
DictFrom(d, pairs) ==
    IF pairs = <<>> THEN d
    ELSE DictFrom(DictSet(d, Head(pairs).k, Head(pairs).v), Tail(pairs))

\* urlencode(query): every pair rendered as quote_plus(k)=quote_plus(v).
urlencode(d) ==
    [i \in 1..Len(d) |-> [k |-> QuotePlus(d[i].k), v |-> QuotePlus(d[i].v)]]

\* _append_start_param(base_url, start)
append_start_param(base_url, s) ==
    LET query == DictSet(DictFrom(<<>>, parse_qsl(base_url.query)),
                         "start", Str(s))
    IN [prefix |-> base_url.prefix, query |-> urlencode(query)]

(***************************************************************************)
(* Cards.  A card holds, per title selector, what select_one finds: <<>>   *)
(* when no element matches, <<text>> with the raw text of the first match. *)
(* Every element h3.base-search-card__title is also an h3, so the bare h3  *)
(* selector matches whenever the card-title selector does.                 *)
(***************************************************************************)
Found(texts) == {<<>>} \cup {<<t>> : t \in texts}

\* Raw texts are whitespace only, or a title with whitespace around it; the
\* titles differ per selector, which tells which selector supplied one.
Cards ==
    {c \in [a_title : Found({"  ", " Dev "}),
            a_full_link : Found({"  ", "Lead "}),
            h3_card_title : Found({"  ", " QA"}),
            h3 : Found({"  ", " QA"})] : c.h3 = <<>> => c.h3_card_title = <<>>}

\* get_text(strip=True) on the raw texts above.
Strip(t) ==
    CASE t = "  " -> ""
      [] t = " Dev " -> "Dev"
      [] t = "Lead " -> "Lead"
      [] t = " QA" -> "QA"
      [] OTHER -> t

\* safe_text(selector): text of the first match, "" when nothing matches.
safe_text(found) == IF found = <<>> THEN "" ELSE Strip(found[1])

\* Mutant of title_of: the chain without its last fallback, the bare h3.
title_of_NoBareH3(card) ==
    IF safe_text(card.a_title) # "" THEN safe_text(card.a_title)
    ELSE IF safe_text(card.a_full_link) # "" THEN safe_text(card.a_full_link)
    ELSE safe_text(card.h3_card_title)

\* The `or` chain of the title: the first non-empty text, "" when none.
title_of(card) ==
    IF safe_text(card.a_title) # "" THEN safe_text(card.a_title)
    ELSE IF safe_text(card.a_full_link) # "" THEN safe_text(card.a_full_link)
    ELSE IF safe_text(card.h3_card_title) # ""
         THEN safe_text(card.h3_card_title)
    ELSE safe_text(card.h3)

\* _parse_single_card: <<>> for None, <<posting>> otherwise.  The other
\* seven fields degrade to "" or [] and never decide whether a posting is
\* returned; the posting is modelled by its title.
parse_single_card(card) ==
    IF title_of(card) = "" THEN <<>>
    ELSE <<[job_title |-> title_of(card)]>>

RECURSIVE parse_cards(_)
parse_cards(cards) ==
    IF cards = <<>> THEN <<>>
    ELSE parse_single_card(Head(cards)) \o parse_cards(Tail(cards))

\* A document is [primary, legacy]: the cards matched by
\* li.jobs-search-results__list-item and by div.base-card.
select_cards(doc) == IF doc.primary # <<>> THEN doc.primary ELSE doc.legacy

\* parse_listings(html)
parse_listings(doc) == parse_cards(select_cards(doc))

(***************************************************************************)
(* The environment of a scrape: what the site can answer and how a         *)
(* request can fail.                                                       *)
(***************************************************************************)
NoCard == [a_title |-> <<>>, a_full_link |-> <<>>, h3_card_title |-> <<>>,
           h3 |-> <<>>]

\* An advertisement, a card in the current markup, a card in legacy markup.
SiteCards ==
    {NoCard,
     [NoCard EXCEPT !.a_title = <<" Dev ">>],
     [NoCard EXCEPT !.a_full_link = <<"  ">>, !.h3 = <<" QA">>]}

SitePages ==
    {[primary |-> p, legacy |-> <<>>] : p \in SeqsUpTo(SiteCards, MaxCards)}
    \cup {[primary |-> <<>>, legacy |-> p] : p \in SeqsUpTo(SiteCards, MaxCards)}

\* Exceptions are [kind, attempt, cause]: attempt tells the objects apart,
\* cause is the kind of the wrapped exception ("None" when there is none).
ExcKinds == {"HTTPError", "ConnectionError"}

Exc(kind, n) == [kind |-> kind, attempt |-> n, cause |-> "None"]

AssertionError == Exc("AssertionError", 0)

SearchUrls ==
    {[prefix |-> "https://x.test/search", query |-> q] :
        q \in {<<[k |-> "keywords", v |-> "dev"]>>,
               <<[k |-> "start", v |-> "a+b"], [k |-> "f_TPR", v |-> "a%20b"]>>}}

NoUrl == [prefix |-> "", query |-> <<>>]

EmptyDoc == [primary |-> <<>>, legacy |-> <<>>]

EmptyFs == [dirs |-> {}, files |-> {}]

ExportIdle ==
    /\ records = <<>>
    /\ fmt = ""
    /\ path = ""
    /\ fs = EmptyFs
    /\ fs0 = EmptyFs

(***************************************************************************)
(* Spec: one call of scrape_search(search_url, max_jobs) on a scraper      *)
(* built with max_retries.  Init is the state after lines 109-111.         *)
(***************************************************************************)
Init ==
    /\ pc = "while"
    /\ search_url \in SearchUrls
    /\ max_jobs \in 0..MaxJobs
    /\ max_retries \in -1..MaxRetries
    /\ all_jobs = <<>>
    /\ start = 0
    /\ paged_url = NoUrl
    /\ attempt = 0
    /\ last_exc = {}
    /\ html = EmptyDoc
    /\ page_jobs = <<>>
    /\ idx = 0
    /\ result = {}
    /\ failure = {}
    /\ events = <<>>
    /\ fetch_log = <<>>
    /\ attempt_log = <<>>
    /\ extracted = <<>>
    /\ page_sizes = <<>>
    /\ ExportIdle

\* Lines 113-116 and 62-63: the loop test holds, the page URL is built and
\* _fetch_page is entered.
WhileEnter ==
    /\ pc = "while"
    /\ Len(all_jobs) < max_jobs
    /\ paged_url' = append_start_param(search_url, start)
    /\ fetch_log' = Append(fetch_log, paged_url')
    /\ events' = Append(events, "fetch")
    /\ attempt' = 1
    /\ last_exc' = {}
    /\ attempt_log' = <<>>
    /\ pc' = "fetch"
    /\ UNCHANGED <<search_url, max_jobs, max_retries, all_jobs, start, html,
                   page_jobs, idx, result, failure, extracted, page_sizes>>
    /\ UNCHANGED exportVars

\* Lines 113 and 135: the loop test fails and all_jobs is returned.
WhileExit ==
    /\ pc = "while"
    /\ ~(Len(all_jobs) < max_jobs)
    /\ result' = {all_jobs}
    /\ pc' = "done"
    /\ UNCHANGED <<search_url, max_jobs, max_retries, all_jobs, start,
                   paged_url, attempt, last_exc, html, page_jobs, idx, failure,
                   events, fetch_log, attempt_log, extracted, page_sizes>>
    /\ UNCHANGED exportVars

\* Lines 64-82: an attempt whose get returns and whose raise_for_status
\* does not raise; resp.text is returned to line 116.
AttemptOk ==
    /\ pc = "fetch"
    /\ attempt <= max_retries
    /\ \E text \in SitePages : html' = text
    /\ attempt_log' = Append(attempt_log, "ok")
    /\ pc' = "parse"
    /\ UNCHANGED <<search_url, max_jobs, max_retries, all_jobs, start,
                   paged_url, attempt, last_exc, page_jobs, idx, result,
                   failure, events, fetch_log, extracted, page_sizes>>
    /\ UNCHANGED exportVars

\* Mutant of AttemptFail: only the first exception is kept.
AttemptFail_KeepsFirst ==
    /\ pc = "fetch"
    /\ attempt <= max_retries
    /\ \E kind \in ExcKinds :
          /\ last_exc' = IF last_exc = {} THEN {Exc(kind, attempt)} ELSE last_exc
          /\ attempt_log' = Append(attempt_log, kind)
    /\ attempt' = attempt + 1
    /\ UNCHANGED <<pc, search_url, max_jobs, max_retries, all_jobs, start,
                   paged_url, html, page_jobs, idx, result, failure, events,
                   fetch_log, extracted, page_sizes>>
    /\ UNCHANGED exportVars

\* Lines 64-81 and 83-92: an attempt that raises (get_proxy, get or
\* raise_for_status); the exception is kept, the retry sleep is taken and
\* the loop goes to its next attempt.
AttemptFail ==
    /\ pc = "fetch"
    /\ attempt <= max_retries
    /\ \E kind \in ExcKinds :
          /\ last_exc' = {Exc(kind, attempt)}
          /\ attempt_log' = Append(attempt_log, kind)
    /\ attempt' = attempt + 1
    /\ UNCHANGED <<pc, search_url, max_jobs, max_retries, all_jobs, start,
                   paged_url, html, page_jobs, idx, result, failure, events,
                   fetch_log, extracted, page_sizes>>
    /\ UNCHANGED exportVars

\* Mutant of RetriesExhausted: scrape_search catches the exception and
\* returns what it has accumulated.
RetriesExhausted_Salvage ==
    /\ pc = "fetch"
    /\ attempt > max_retries
    /\ failure' = IF last_exc = {} THEN {AssertionError} ELSE last_exc
    /\ result' = {all_jobs}
    /\ pc' = "done"
    /\ UNCHANGED <<search_url, max_jobs, max_retries, all_jobs, start,
                   paged_url, attempt, last_exc, html, page_jobs, idx, events,
                   fetch_log, attempt_log, extracted, page_sizes>>
    /\ UNCHANGED exportVars

\* Lines 93-94: the range is exhausted.  The assert raises AssertionError
\* when last_exc is None, otherwise last_exc is raised; scrape_search has
\* no handler, so the exception leaves it.
RetriesExhausted ==
    /\ pc = "fetch"
    /\ attempt > max_retries
    /\ failure' = IF last_exc = {} THEN {AssertionError} ELSE last_exc
    /\ pc' = "raised"
    /\ UNCHANGED <<search_url, max_jobs, max_retries, all_jobs, start,
                   paged_url, attempt, last_exc, html, page_jobs, idx, result,
                   events, fetch_log, attempt_log, extracted, page_sizes>>
    /\ UNCHANGED exportVars

\* Mutant of ParsePage: an empty page does not break out of the loop.
ParsePage_NoBreak ==
    /\ pc = "parse"
    /\ page_jobs' = parse_listings(html)
    /\ extracted' = extracted \o page_jobs'
    /\ page_sizes' = Append(page_sizes, Len(page_jobs'))
    /\ pc' = "for"
    /\ idx' = 1
    /\ UNCHANGED <<search_url, max_jobs, max_retries, all_jobs, start,
                   paged_url, attempt, last_exc, html, result, failure, events,
                   fetch_log, attempt_log>>
    /\ UNCHANGED exportVars

\* Lines 117-120 and 135: the page is parsed; an empty page breaks out of
\* the loop and all_jobs is returned.
ParsePage ==
    /\ pc = "parse"
    /\ page_jobs' = parse_listings(html)
    /\ extracted' = extracted \o page_jobs'
    /\ page_sizes' = Append(page_sizes, Len(page_jobs'))
    /\ IF page_jobs' = <<>>
       THEN /\ result' = {all_jobs}
            /\ pc' = "done"
            /\ idx' = idx
       ELSE /\ result' = result
            /\ pc' = "for"
            /\ idx' = 1
    /\ UNCHANGED <<search_url, max_jobs, max_retries, all_jobs, start,
                   paged_url, attempt, last_exc, html, failure, events,
                   fetch_log, attempt_log>>
    /\ UNCHANGED exportVars

\* Mutant of ForAppend: the cap is not checked after the append.
ForAppend_NoCapCheck ==
    /\ pc = "for"
    /\ idx <= Len(page_jobs)
    /\ all_jobs' = Append(all_jobs, page_jobs[idx])
    /\ idx' = idx + 1
    /\ UNCHANGED <<pc, search_url, max_jobs, max_retries, start, paged_url,
                   attempt, last_exc, html, page_jobs, result, failure, events,
                   fetch_log, attempt_log, extracted, page_sizes>>
    /\ UNCHANGED exportVars

\* Lines 122-125: one iteration of `for job in page_jobs`; to_dict copies
\* the posting's fields.
ForAppend ==
    /\ pc = "for"
    /\ idx <= Len(page_jobs)
    /\ all_jobs' = Append(all_jobs, page_jobs[idx])
    /\ IF Len(all_jobs') >= max_jobs
       THEN /\ pc' = "after_for"
            /\ idx' = idx
       ELSE /\ pc' = "for"
            /\ idx' = idx + 1
    /\ UNCHANGED <<search_url, max_jobs, max_retries, start, paged_url,
                   attempt, last_exc, html, page_jobs, result, failure, events,
                   fetch_log, attempt_log, extracted, page_sizes>>
    /\ UNCHANGED exportVars

\* Line 122: page_jobs is exhausted.
ForExhausted ==
    /\ pc = "for"
    /\ idx > Len(page_jobs)
    /\ pc' = "after_for"
    /\ UNCHANGED <<search_url, max_jobs, max_retries, all_jobs, start,
                   paged_url, attempt, last_exc, html, page_jobs, idx, result,
                   failure, events, fetch_log, attempt_log, extracted,
                   page_sizes>>
    /\ UNCHANGED exportVars

\* Mutant of PageDone: the offset advances by the size of the page.
PageDone_ByPageLen ==
    /\ pc = "after_for"
    /\ start' = start + Len(page_jobs)
    /\ events' = Append(events, "sleep")
    /\ pc' = "while"
    /\ UNCHANGED <<search_url, max_jobs, max_retries, all_jobs, paged_url,
                   attempt, last_exc, html, page_jobs, idx, result, failure,
                   fetch_log, attempt_log, extracted, page_sizes>>
    /\ UNCHANGED exportVars

\* Lines 127-133: the offset advances and the inter-page sleep is taken.
PageDone ==
    /\ pc = "after_for"
    /\ start' = start + page_size_guess
    /\ events' = Append(events, "sleep")
    /\ pc' = "while"
    /\ UNCHANGED <<search_url, max_jobs, max_retries, all_jobs, paged_url,
                   attempt, last_exc, html, page_jobs, idx, result, failure,
                   fetch_log, attempt_log, extracted, page_sizes>>
    /\ UNCHANGED exportVars

Next ==
    \/ WhileEnter
    \/ WhileExit
    \/ AttemptOk
    \/ AttemptFail
    \/ RetriesExhausted
    \/ ParsePage
    \/ ForAppend
    \/ ForExhausted
    \/ PageDone

Spec == Init /\ [][Next]_vars

(***************************************************************************)
(* SpecUrl: one call of _append_start_param(search_url, start).            *)
(***************************************************************************)
ScrapeIdle ==
    /\ max_jobs = 0
    /\ max_retries = 0
    /\ all_jobs = <<>>
    /\ attempt = 0
    /\ last_exc = {}
    /\ idx = 0
    /\ events = <<>>
    /\ fetch_log = <<>>
    /\ attempt_log = <<>>
    /\ extracted = <<>>
    /\ page_sizes = <<>>

BaseUrls ==
    {[prefix |-> "https://x.test/search", query |-> q] :
        q \in SeqsUpTo(Fields, MaxParams)}

Offsets == {page_size_guess * i : i \in 0..MaxJobs}

InitUrl ==
    /\ pc = "call"
    /\ search_url \in BaseUrls
    /\ start \in Offsets
    /\ paged_url = NoUrl
    /\ html = EmptyDoc
    /\ page_jobs = <<>>
    /\ result = {}
    /\ failure = {}
    /\ ScrapeIdle
    /\ ExportIdle

\* Lines 96-103.
AppendStartParam ==
    /\ pc = "call"
    /\ paged_url' = append_start_param(search_url, start)
    /\ result' = {paged_url'}
    /\ pc' = "done"
    /\ UNCHANGED <<search_url, start, html, page_jobs, failure>>
    /\ UNCHANGED scrapeVars
    /\ UNCHANGED exportVars

NextUrl == AppendStartParam

SpecUrl == InitUrl /\ [][NextUrl]_vars

(***************************************************************************)
(* SpecParse: one call of parse_listings(html).                            *)
(***************************************************************************)
\* The numbers of primary and legacy cards of a document: at most MaxCards
\* cards in all.
Shapes == {n \in (0..MaxCards) \X (0..MaxCards) : n[1] + n[2] <= MaxCards}

Documents(n) == [primary : [1..n[1] -> Cards], legacy : [1..n[2] -> Cards]]

InitParse ==
    /\ pc = "call"
    /\ \E n \in Shapes : html \in Documents(n)
    /\ page_jobs = <<>>
    /\ search_url = NoUrl
    /\ start = 0
    /\ paged_url = NoUrl
    /\ result = {}
    /\ failure = {}
    /\ ScrapeIdle
    /\ ExportIdle

\* Lines 137-156.
ParseListings ==
    /\ pc = "call"
    /\ page_jobs' = parse_listings(html)
    /\ result' = {page_jobs'}
    /\ pc' = "done"
    /\ UNCHANGED <<search_url, start, paged_url, html, failure>>
    /\ UNCHANGED scrapeVars
    /\ UNCHANGED exportVars

NextParse == ParseListings

SpecParse == InitParse /\ [][NextParse]_vars

(***************************************************************************)
(* SpecExport: one call of DataExporter.export(records, fmt, path).        *)
(* The file system is [dirs, files]: the directories that exist and the    *)
(* files written, each as [path, fmt].                                     *)
(***************************************************************************)
Formats == {"json", "csv", "excel", "xml", "html"}

FmtArgs == Formats \cup {"JSON", "yaml", ""}

\* str.lower on the format arguments above.
Lower(f) == IF f = "JSON" THEN "json" ELSE f

Paths == {"jobs.json", "data/jobs.json", "out/run1/jobs.json"}

\* os.path.dirname(os.path.abspath(path)), relative to the working
\* directory ".".
Parent(p) ==
    CASE p = "jobs.json" -> "."
      [] p = "data/jobs.json" -> "data"
      [] p = "out/run1/jobs.json" -> "out/run1"

\* The directories os.makedirs(parent, exist_ok=True) leaves existing.
MadeDirs(parent) ==
    CASE parent = "out/run1" -> {"out", "out/run1"}
      [] OTHER -> {parent}

ValueError(msg) == [kind |-> "ValueError", attempt |-> 0, cause |-> msg]

ExportRecords == SeqsUpTo({[job_title |-> "Dev"], [job_title |-> "QA"]}, MaxRecords)

InitExport ==
    /\ pc = "call"
    /\ records \in ExportRecords
    /\ fmt \in FmtArgs
    /\ path \in Paths
    /\ fs \in {[dirs |-> d, files |-> {}] : d \in {{"."}, {".", "data"}}}
    /\ fs0 = fs
    /\ search_url = NoUrl
    /\ start = 0
    /\ paged_url = NoUrl
    /\ html = EmptyDoc
    /\ page_jobs = <<>>
    /\ result = {}
    /\ failure = {}
    /\ ScrapeIdle

\* Lines 20-23: the format is lower-cased and an empty input is refused.
ExportCheckRecords ==
    /\ pc = "call"
    /\ fmt' = Lower(fmt)
    /\ IF records = <<>>
       THEN /\ failure' = {ValueError("No records to export.")}
            /\ pc' = "raised"
       ELSE /\ failure' = failure
            /\ pc' = "ensure_parent_dir"
    /\ UNCHANGED <<search_url, start, paged_url, html, page_jobs, result,
                   records, path, fs, fs0>>
    /\ UNCHANGED scrapeVars

\* Lines 25 and 13-16: the parent directory is created when it is missing.
EnsureParentDir ==
    /\ pc = "ensure_parent_dir"
    /\ fs' = IF Parent(path) \notin fs.dirs
             THEN [fs EXCEPT !.dirs = @ \cup MadeDirs(Parent(path))]
             ELSE fs
    /\ pc' = "dispatch"
    /\ UNCHANGED <<search_url, start, paged_url, html, page_jobs, result,
                   failure, records, fmt, path, fs0>>
    /\ UNCHANGED scrapeVars

\* Lines 27-38: the writer of the format runs, or the format is refused.
ExportDispatch ==
    /\ pc = "dispatch"
    /\ IF fmt \in Formats
       THEN /\ fs' = [fs EXCEPT !.files = @ \cup {[path |-> path, fmt |-> fmt]}]
            /\ failure' = failure
            /\ pc' = "done"
       ELSE /\ fs' = fs
            /\ failure' = {ValueError("Unsupported export format")}
            /\ pc' = "raised"
    /\ UNCHANGED <<search_url, start, paged_url, html, page_jobs, result,
                   records, fmt, path, fs0>>
    /\ UNCHANGED scrapeVars

NextExport ==
    \/ ExportCheckRecords
    \/ EnsureParentDir
    \/ ExportDispatch

SpecExport == InitExport /\ [][NextExport]_vars

(***************************************************************************)
(* Properties.                                                             *)
(***************************************************************************)
Prefix(s, n) == SubSeq(s, 1, n)

NumFetches == Len(fetch_log)

NumSleeps == Cardinality({i \in 1..Len(events) : events[i] = "sleep"})

NonEmptyPages == Cardinality({i \in 1..Len(page_sizes) : page_sizes[i] > 0})

\* C1: with max_jobs >= 1, all_jobs never holds more than max_jobs records
\* and is always the first records extracted, in page-then-document order;
\* once it holds max_jobs records no page fetch is in progress or follows,
\* and the call returns exactly the first max_jobs extracted records.
C1_CapBound ==
    max_jobs >= 1 =>
        /\ Len(all_jobs) <= max_jobs
        /\ Len(all_jobs) <= Len(extracted)
        /\ all_jobs = Prefix(extracted, Len(all_jobs))
        /\ Len(all_jobs) = max_jobs =>
              /\ pc \in {"after_for", "while", "done"}
              /\ NumFetches = Len(page_sizes)
              /\ pc = "done" => result = {Prefix(extracted, max_jobs)}

\* C1 witness: the cap is reached on the first page, which yielded more
\* records than max_jobs, and the call has returned after a single fetch.
C1_Witness ==
    /\ pc = "done"
    /\ max_jobs >= 1
    /\ Len(all_jobs) = max_jobs
    /\ Len(extracted) > max_jobs
    /\ NumFetches = 1

\* C2: when the cap is not reached the call ends at the first empty page:
\* an empty page is the last page fetched, every page before it was
\* non-empty, the result is every record of the preceding pages in order,
\* and the number of fetches is the number of non-empty pages plus one; a
\* call that returns below the cap has ended on such an empty page.
C2_StopsAtEmptyPage ==
    /\ (page_sizes # <<>> /\ Last(page_sizes) = 0) =>
          /\ pc = "done"
          /\ failure = {}
          /\ result = {extracted}
          /\ Len(extracted) < max_jobs
          /\ \A i \in 1..(Len(page_sizes) - 1) : page_sizes[i] > 0
          /\ NumFetches = NonEmptyPages + 1
    /\ \A i \in 1..(Len(page_sizes) - 1) : page_sizes[i] > 0
    /\ (pc = "done" /\ Len(all_jobs) < max_jobs) =>
          (page_sizes # <<>> /\ Last(page_sizes) = 0)

\* C2 witness: a non-empty first page below the cap, an empty second page,
\* and the call has returned after two fetches.
C2_Witness ==
    /\ pc = "done"
    /\ Len(page_sizes) = 2
    /\ page_sizes[1] > 0
    /\ page_sizes[2] = 0
    /\ NumFetches = 2
    /\ result = {all_jobs}
    /\ Len(all_jobs) = page_sizes[1]

\* The attempts of the current _fetch_page call before the last one all
\* failed.
EarlierAttemptsFailed ==
    \A i \in 1..(Len(attempt_log) - 1) : attempt_log[i] \in ExcKinds

C4_FailureAborts ==
    failure # {} =>
        /\ pc = "raised"
        /\ result = {}
        /\ Last(events) = "fetch"
        /\ Len(page_sizes) = NumFetches - 1
        /\ ~ENABLED Next

\* C4 witness: the fetch of a later page failed with records accumulated.
C4_Witness ==
    /\ pc = "raised"
    /\ NumFetches >= 2
    /\ all_jobs # <<>>
    /\ max_retries >= 1

\* C8 as stated: no sleep precedes the first fetch, fetches and sleeps
\* alternate, and every sleep is followed by another fetch, so a call that
\* has returned did not end on a sleep.
C8_SleepOnlyBetweenFetches ==
    /\ events # <<>> => events[1] = "fetch"
    /\ \A i \in 1..(Len(events) - 1) : events[i] # events[i + 1]
    /\ (pc = "done" /\ events # <<>>) => Last(events) = "fetch"

\* The values of the `start` fields of a query.
StartValues(q) == [i \in 1..Len(SelectSeq(q, LAMBDA f : f.k = "start")) |->
                      SelectSeq(q, LAMBDA f : f.k = "start")[i].v]

\* C9: the offset is 25 times the number of pages completed, whatever
\* their sizes, and the k-th fetch requests exactly one `start`, 25*(k-1).
C9_OffsetsAdvanceBy25 ==
    /\ start = 25 * NumSleeps
    /\ pc \in {"fetch", "parse", "for", "after_for"} =>
          start = 25 * (NumFetches - 1)
    /\ \A k \in 1..Len(fetch_log) :
          StartValues(fetch_log[k].query) = <<Str(25 * (k - 1))>>

\* C9 witness: a third page is requested, at offset 50, after a first page
\* that held a single record.
C9_Witness ==
    /\ NumFetches = 3
    /\ page_sizes[1] = 1
    /\ StartValues(fetch_log[3].query) = <<"50">>

\* C10 as stated: whenever the assert after the retry loop is reached,
\* last_exc is not None.
C10_AssertHolds ==
    (pc = "fetch" /\ attempt > max_retries) => last_exc # {}

\* The decoded name and value of every field of a query.
Decoded(q) == [i \in 1..Len(q) |-> [k |-> Unquote(q[i].k), v |-> Unquote(q[i].v)]]

OtherParams(q) == SelectSeq(Decoded(q), LAMBDA f : f.k # "start")

\* C5 as stated: the URL built has exactly one `start`, equal to the
\* offset, and every other parameter of the base URL with its value, in
\* the same order.
C5_KeepsOtherParams ==
    pc = "done" =>
        /\ paged_url.prefix = search_url.prefix
        /\ StartValues(paged_url.query) = <<Str(start)>>
        /\ OtherParams(paged_url.query) = OtherParams(search_url.query)

\* C6 as stated: when export raises, the file system is as it was when
\* export was called.
C6_RaisesBeforeIO ==
    pc = "raised" => fs = fs0

\* A raw text is blank when it is whitespace only.
Blank(t) == t = "  "

\* The card has a title: some title selector matches a non-blank text.
HasTitle(c) ==
    \/ (c.a_title # <<>> /\ ~Blank(c.a_title[1]))
    \/ (c.a_full_link # <<>> /\ ~Blank(c.a_full_link[1]))
    \/ (c.h3_card_title # <<>> /\ ~Blank(c.h3_card_title[1]))
    \/ (c.h3 # <<>> /\ ~Blank(c.h3[1]))

\* The cards parse_listings reads: the primary ones, the legacy ones when
\* there is no primary one.
CardsRead == IF Len(html.primary) > 0 THEN html.primary ELSE html.legacy

\* The first title candidate of a card, in the selectors' order.
FirstTitle(c) ==
    IF c.a_title # <<>> /\ ~Blank(c.a_title[1]) THEN "Dev"
    ELSE IF c.a_full_link # <<>> /\ ~Blank(c.a_full_link[1]) THEN "Lead"
    ELSE "QA"

\* C7: parse_listings returns one record per card that has a title, in
\* card order, each with a non-empty title (the first candidate), and
\* drops the title-less cards: the count is the number of cards minus the
\* number of title-less ones.
C7_DropsTitlelessCards ==
    pc = "done" =>
        LET titled == SelectSeq(CardsRead, HasTitle)
            titleless == {i \in 1..Len(CardsRead) : ~HasTitle(CardsRead[i])}
        IN /\ Len(page_jobs) = Len(CardsRead) - Cardinality(titleless)
           /\ Len(page_jobs) = Len(titled)
           /\ \A j \in 1..Len(page_jobs) :
                 /\ page_jobs[j].job_title # ""
                 /\ page_jobs[j].job_title = FirstTitle(titled[j])

\* C7 witness: two cards were read, the first title-less with a blank
\* match, the second titled by the bare h3 fallback only.
C7_Witness ==
    /\ pc = "done"
    /\ Len(CardsRead) = 2
    /\ ~HasTitle(CardsRead[1])
    /\ CardsRead[1].a_full_link = <<"  ">>
    /\ Len(page_jobs) = 1
    /\ page_jobs[1].job_title = "QA"
    /\ CardsRead[2].h3_card_title = <<>>

====
